---- MODULE Spec2Model ----
(***************************************************************************)
(* Model of the text buffer of skia-plain-text-editor (src/src/editor.rs). *)
(* A paragraph's text is the sequence of its UTF-8 bytes, so that byte     *)
(* indices, code-point boundaries and slicing panics are those of the Rust *)
(* String operations the code calls.  The layout cache of a line is what   *)
(* src/src/shape.rs hands back; the shaping engine behind it is outside    *)
(* the repository and is modelled by the simplest layout it can produce:   *)
(* one visual row, one box of one unit per code point.  The wrap-point     *)
(* bookkeeping of the RunHandler (src/src/shape.rs) and the caret and mark *)
(* of the EditorLayer (src/src/app.rs) have a specification each.          *)
(***************************************************************************)
EXTENDS Integers, Sequences, FiniteSets

VARIABLES
    lines,          \* Editor.lines: sequence of TextLine records
    width,          \* Editor.width
    height,         \* Editor.height
    font,           \* Editor.font
    needs_reshape,  \* Editor.needs_reshape
    panicked,       \* TRUE once a call has aborted (Rust panic): the process is gone
    last,           \* the call the client made last and what it returned
    handler,        \* shape(): the RunHandler the shaping engine drives
    line_break_offsets, \* shape(): None while shaping, Some(offsets) once returned
    text_pos,       \* EditorLayer.text_pos: the caret
    mark_pos,       \* EditorLayer.mark_pos: None, or Some(the selection anchor)
    shift_down      \* EditorLayer.shift_down

\* the fields of the Editor with the record of the last call
editorVars == <<lines, width, height, font, needs_reshape, panicked, last>>
\* the locals of shape() that hold the wrap points
shapeVars == <<handler, line_break_offsets>>
\* the fields of the EditorLayer beside its editor
layerVars == <<text_pos, mark_pos, shift_down>>

vars == <<editorVars, shapeVars, layerVars>>

----------------------------------------------------------------------------
(* Bounds of the model. *)

\* most paragraphs a document holds
MaxLines == 3
\* most bytes a document holds, all paragraphs together
MaxBytes == 4
\* most bytes of a text given to insert
MaxText == 3
\* most bytes of a document of the layout runs, as a file: the text of its
\* paragraphs and a newline between two paragraphs
MaxLayoutBytes == 2
\* greatest text offset a shaping run ends at
MaxOffset == 4

----------------------------------------------------------------------------
(* UTF-8 text. *)

\* the bytes of the code points the model writes: 'a', U+00E9, U+20AC,
\* U+1F600 (one, two, three and four bytes) and '\n'
CharA == <<97>>
CharE == <<195, 169>>
CharEuro == <<226, 130, 172>>
CharGrin == <<240, 159, 152, 128>>
CharNL == <<10>>

\* the code points of a paragraph's text
Chars == {CharA, CharE, CharEuro, CharGrin}

RECURSIVE Utf8(_, _)
\* every string of at most n bytes made of the code points in chars
Utf8(chars, n) ==
    {<<>>} \cup UNION {{c \o s : s \in Utf8(chars, n - Len(c))} :
                         c \in {d \in chars : Len(d) <= n}}

\* str::is_char_boundary: 0 and len are boundaries, an index past len is not,
\* and inside the string a byte starts a code point unless it is 10xxxxxx
is_char_boundary(text, i) ==
    IF i = 0 THEN TRUE
    ELSE IF i >= Len(text) THEN i = Len(text)
    ELSE ~(text[i + 1] >= 128 /\ text[i + 1] <= 191)

\* text[from..to] as a 0-based half-open byte range
Slice(text, from, to) == SubSeq(text, from + 1, to)

RECURSIVE Split(_)
\* str::split('\n'): the parts between the newlines, at least one part
Split(text) ==
    IF \A i \in 1..Len(text) : text[i] # 10 THEN <<text>>
    ELSE LET i == CHOOSE i \in 1..Len(text) :
                     text[i] = 10 /\ \A j \in 1..(i - 1) : text[j] # 10
         IN  <<SubSeq(text, 1, i - 1)>> \o Split(SubSeq(text, i + 1, Len(text)))

RECURSIVE TotalBytes(_)
\* the bytes of text of all the lines together
TotalBytes(ls) == IF ls = <<>> THEN 0 ELSE Len(Head(ls).text) + TotalBytes(Tail(ls))

----------------------------------------------------------------------------
(* TextLine and TextPosition. *)

\* Rect::new(left, top, right, bottom)
Rect_new(left, top, right, bottom) ==
    [left |-> left, top |-> top, right |-> right, bottom |-> bottom]

\* f32::MAX and f32::MIN, as the extreme integers of the model
F32_MAX == 2147483647
F32_MIN == -2147483647

\* the rectangle of a byte that starts no glyph cluster
UNSET_RECT == Rect_new(F32_MIN, F32_MIN, F32_MIN, F32_MIN)

\* Option: None is the empty sequence, Some(x) the sequence of x alone
None == <<>>
Some(x) == <<x>>

\* TextLine::new: the text with an empty cache, not shaped
TextLine_new(text) ==
    [text |-> text, shaped |-> FALSE, blob |-> None, cursor_pos |-> <<>>,
     line_end_offsets |-> <<>>, word_boundaries |-> <<>>, height |-> 0,
     origin |-> [x |-> 0, y |-> 0]]

\* Editor::mark_dirty: drops the blob and the word boundaries, keeps the rest
mark_dirty(line) ==
    [line EXCEPT !.blob = None, !.shaped = FALSE, !.word_boundaries = <<>>]

\* TextPosition::new takes the byte index first
TextPosition_new(text_byte_index, paragraph_index) ==
    [paragraph_index |-> paragraph_index, text_byte_index |-> text_byte_index]

\* the derived Ord of TextPosition: paragraph first, then byte
PosLess(p, q) ==
    \/ p.paragraph_index < q.paragraph_index
    \/ /\ p.paragraph_index = q.paragraph_index
       /\ p.text_byte_index < q.text_byte_index

Texts(ls) == [i \in 1..Len(ls) |-> ls[i].text]

----------------------------------------------------------------------------
(* Editor::mov. *)

Movement == {"Nowhere", "Left", "Up", "Right", "Down", "Home", "End",
             "WordLeft", "WordRight"}

Unimplemented == {"Up", "Down", "Home", "End", "WordLeft", "WordRight"}

\* SnapDown with the search for a boundary left out: only the clamp to the length
SnapDown_clampOnly(text, b) == IF b > Len(text) THEN Len(text) ELSE b

\* (0..=b).rev().find(is_char_boundary): the last boundary at or before b
SnapDown(text, b) ==
    CHOOSE i \in 0..b :
        is_char_boundary(text, i) /\ \A j \in (i + 1)..b : ~is_char_boundary(text, j)

\* PrevBoundary stepping one byte back instead of one code point
PrevBoundary_oneByte(text, b) == b - 1

\* (0..b).rev().find(is_char_boundary), b > 0: the last boundary before b
PrevBoundary(text, b) == SnapDown(text, b - 1)

\* ScanAhead stopping short of the longest UTF-8 sequences
ScanAhead_short == 1..2

\* (1..=4).map(|i| b + i).find(is_char_boundary): the offsets scanned ahead
ScanAhead == 1..4

\* the first boundary among b+1 .. b+4, as a set (empty: none found)
NextBoundary(text, b) ==
    LET found == {b + i : i \in {j \in ScanAhead : is_char_boundary(text, b + j)}}
    IN  {i \in found : \A k \in found : i <= k}

\* the clamping that precedes every movement (lines 96-105), ls not empty
Clamp(ls, pos) ==
    IF pos.paragraph_index >= Len(ls)
    THEN TextPosition_new(Len(ls[Len(ls)].text), Len(ls) - 1)
    ELSE TextPosition_new(
             SnapDown(ls[pos.paragraph_index + 1].text, pos.text_byte_index),
             pos.paragraph_index)

\* mov_panics without the early return on no lines
mov_panics_always(ls, mv) == mv \in Unimplemented

\* the movements that reach todo!(): only after the early return on no lines
mov_panics(ls, mv) == ls # <<>> /\ mv \in Unimplemented

\* MoveLeft landing on the start of the previous paragraph, not its end
MoveLeft_lineStart(ls, pos) ==
    IF pos.text_byte_index = 0
    THEN IF pos.paragraph_index > 0
         THEN TextPosition_new(0, pos.paragraph_index - 1)
         ELSE pos
    ELSE TextPosition_new(
             PrevBoundary(ls[pos.paragraph_index + 1].text, pos.text_byte_index),
             pos.paragraph_index)

\* Movement::Left (118-131), pos already clamped
MoveLeft(ls, pos) ==
    IF pos.text_byte_index = 0
    THEN IF pos.paragraph_index > 0
         THEN TextPosition_new(Len(ls[pos.paragraph_index].text),
                               pos.paragraph_index - 1)
         ELSE pos
    ELSE TextPosition_new(
             PrevBoundary(ls[pos.paragraph_index + 1].text, pos.text_byte_index),
             pos.paragraph_index)

\* Movement::Right (133-144), pos already clamped
MoveRight(ls, pos) ==
    LET next == NextBoundary(ls[pos.paragraph_index + 1].text, pos.text_byte_index)
    IN  IF next # {}
        THEN TextPosition_new(CHOOSE i \in next : TRUE, pos.paragraph_index)
        ELSE IF pos.paragraph_index + 1 < Len(ls)
             THEN TextPosition_new(0, pos.paragraph_index + 1)
             ELSE pos

\* Editor::mov for the movements that return
mov(ls, mv, pos) ==
    IF ls = <<>> THEN TextPosition_new(0, 0)
    ELSE LET p == Clamp(ls, pos)
         IN  CASE mv = "Left" -> MoveLeft(ls, p)
               [] mv = "Right" -> MoveRight(ls, p)
               [] OTHER -> p

----------------------------------------------------------------------------
(* Editor::insert. *)

\* String::insert_str(b, first)
insert_str(text, b, first) ==
    Slice(text, 0, b) \o first \o Slice(text, b, Len(text))

\* SplitHead without the drain: the head keeps its tail
SplitHead_keepsTail(text, b, first) == text \o first

\* head.text.drain(b..) followed by head.text.push_str(first)
SplitHead(text, b, first) == Slice(text, 0, b) \o first

\* foot.text.push_str(<what head.text.drain(b..) yields>)
SplitFoot(foot, text, b) == foot \o Slice(text, b, Len(text))

\* lines.extend / lines.splice: the parts from the from-th on as new lines
NewLines(parts, from) ==
    [i \in 1..(Len(parts) - from + 1) |-> TextLine_new(parts[i + from - 1])]

\* insert_skips never returning early
insert_skips_never(text) == FALSE

\* insert returns at once, changing nothing (209-211)
insert_skips(text) == text = <<>>

\* InsertAppends deciding on the position as given, before it is normalized
InsertAppends_asGiven(ls, pos) == Len(ls) <= pos.paragraph_index

\* the branch taken when the normalized paragraph index is not a line (221)
InsertAppends(ls, pos) == Len(ls) <= mov(ls, "Nowhere", pos).paragraph_index

\* insert aborts on a failed assert_eq! of the append branch, or when the
\* String operation is given an index that is not a code-point boundary
insert_panics(ls, pos, text) ==
    LET p == mov(ls, "Nowhere", pos)
    IN  /\ ~insert_skips(text)
        /\ IF InsertAppends(ls, pos)
           THEN p.paragraph_index # Len(ls) \/ p.text_byte_index # 0
           ELSE ~is_char_boundary(ls[p.paragraph_index + 1].text, p.text_byte_index)

\* the lines insert leaves, text not empty
insert_lines(ls, pos, text) ==
    LET p == mov(ls, "Nowhere", pos)
        parts == Split(text)
        at == p.paragraph_index + 1
        b == p.text_byte_index
    IN  IF InsertAppends(ls, pos)
        THEN ls \o NewLines(parts, 1)
        ELSE IF Len(parts) >= 2
        THEN LET spliced == SubSeq(ls, 1, at - 1) \o <<mark_dirty(ls[at])>>
                            \o NewLines(parts, 2) \o SubSeq(ls, at + 1, Len(ls))
                 last_at == at + Len(spliced) - Len(ls)
                 old == ls[at].text
             IN  [spliced EXCEPT
                    ![last_at].text = SplitFoot(@, old, b),
                    ![at].text = SplitHead(old, b, parts[1])]
        ELSE [ls EXCEPT ![at] = [mark_dirty(@) EXCEPT
                                   !.text = insert_str(@, b, parts[1])]]

\* insert_ret computing the fast path's byte index from the position as given
insert_ret_asGiven(ls, pos, text) ==
    LET p == mov(ls, "Nowhere", pos)
        parts == Split(text)
        after == insert_lines(ls, pos, text)
    IN  IF InsertAppends(ls, pos)
        THEN TextPosition_new(Len(after[Len(after)].text), Len(after))
        ELSE IF Len(parts) >= 2
        THEN LET last_index == p.paragraph_index + Len(after) - Len(ls)
             IN  TextPosition_new(Len(parts[Len(parts)]), last_index)
        ELSE TextPosition_new(pos.text_byte_index + Len(parts[1]), p.paragraph_index)

\* the position insert returns, text not empty
insert_ret(ls, pos, text) ==
    LET p == mov(ls, "Nowhere", pos)
        parts == Split(text)
        after == insert_lines(ls, pos, text)
    IN  IF InsertAppends(ls, pos)
        THEN TextPosition_new(Len(after[Len(after)].text), Len(after))
        ELSE IF Len(parts) >= 2
        THEN LET last_index == p.paragraph_index + Len(after) - Len(ls)
             IN  TextPosition_new(Len(parts[Len(parts)]), last_index)
        ELSE TextPosition_new(p.text_byte_index + Len(parts[1]), p.paragraph_index)

----------------------------------------------------------------------------
(* Editor::remove. *)

\* remove_skips for an empty range only
remove_skips_emptyRange(ls, start, end) == start = end

\* remove returns at once, changing nothing (259)
remove_skips(ls, start, end) == start = end \/ start.paragraph_index >= Len(ls)

\* lines[start.paragraph_index..=end.paragraph_index] matches [head, .., foot]
RemoveSpans(start, end) == start.paragraph_index < end.paragraph_index

\* &foot.text[..=e]: the foot's bytes 0 ..= e
FootPart(foot, e) == Slice(foot, 0, e + 1)

\* head.text.replace_range(s.., part)
JoinHead(head, s, part) == Slice(head, 0, s) \o part

\* CutRange taking the byte at e too
CutRange_inclusive(text, s, e) == Slice(text, 0, s) \o Slice(text, e + 1, Len(text))

\* line.text.replace_range(s..e, "")
CutRange(text, s, e) == Slice(text, 0, s) \o Slice(text, e, Len(text))

\* lines.drain(s + 1..e) on 0-based indices: what is left of the lines
DrainBetween(ls, s, e) == SubSeq(ls, 1, s + 1) \o SubSeq(ls, e + 1, Len(ls))

\* remove aborts when the slice of lines is out of range, when a String index
\* is not a code-point boundary of its string, or when a range is reversed
remove_panics(ls, start, end) ==
    LET s == start.paragraph_index
        e == end.paragraph_index
        sb == start.text_byte_index
        eb == end.text_byte_index
    IN  /\ ~remove_skips(ls, start, end)
        /\ \/ s >= Len(ls)
           \/ e + 1 > Len(ls)
           \/ s > e + 1
           \/ /\ e + 1 <= Len(ls)
              /\ s <= e + 1
              /\ IF RemoveSpans(start, end)
                 THEN \/ eb + 1 > Len(ls[e + 1].text)
                      \/ ~is_char_boundary(ls[e + 1].text, eb + 1)
                      \/ ~is_char_boundary(ls[s + 1].text, sb)
                 ELSE \/ ~is_char_boundary(ls[s + 1].text, sb)
                      \/ ~is_char_boundary(ls[s + 1].text, eb)
                      \/ sb > eb

\* the lines remove leaves when it neither skips nor aborts
remove_lines(ls, start, end) ==
    LET s == start.paragraph_index
        e == end.paragraph_index
        sb == start.text_byte_index
        eb == end.text_byte_index
    IN  IF RemoveSpans(start, end)
        THEN DrainBetween(
                 [ls EXCEPT ![s + 1] = [mark_dirty(@) EXCEPT
                     !.text = JoinHead(@, sb, FootPart(ls[e + 1].text, eb))]],
                 s, e)
        ELSE [ls EXCEPT ![s + 1] = [mark_dirty(@) EXCEPT
                                      !.text = CutRange(@, sb, eb)]]

----------------------------------------------------------------------------
(* shape::shape, as far as the editor reads its result. *)

\* the fonts a client sets, each told by its line spacing (Font::spacing,
\* rounded up); Editor::new starts with the first.  A glyph advances by one
\* unit and Font::size is one unit in every font.
Fonts == {1, 2}

\* the code points of text that start before byte i
CodePointsBefore(text, i) ==
    Cardinality({j \in 0..(i - 1) : is_char_boundary(text, j)})

\* selection_box of the cluster of one code point, the k-th of its row
selection_box(f, k) == Rect_new(k, 0, k + 1, f)

\* RunHandler::final_rect: the caret box after the last glyph
final_rect(f, text) ==
    LET n == CodePointsBefore(text, Len(text))
    IN  Rect_new(n, 0, n + 1, f)

\* glyph_bounds without the final rectangle
glyph_bounds_noFinal(text, f) ==
    [i \in 1..Len(text) |->
        IF is_char_boundary(text, i - 1)
        THEN selection_box(f, CodePointsBefore(text, i - 1))
        ELSE UNSET_RECT]

\* cursor_pos: UNSET_RECT for every byte, the box of its cluster for a byte
\* that starts a code point, and the final rectangle pushed at the end
glyph_bounds(text, f) ==
    [i \in 1..(Len(text) + 1) |->
        IF i = Len(text) + 1 THEN final_rect(f, text)
        ELSE IF is_char_boundary(text, i - 1)
        THEN selection_box(f, CodePointsBefore(text, i - 1))
        ELSE UNSET_RECT]

\* RunHandler::make_blob: no blob without a run, else one with these bounds
make_blob(text, f) ==
    IF text = <<>> THEN None
    ELSE Some([bounds |-> Rect_new(0, 0, CodePointsBefore(text, Len(text)), f)])

\* word_breaks
word_breaks(text) == [i \in 1..Len(text) |-> is_char_boundary(text, i - 1)]

\* RunHandler::new, as far as the wrap points go: no text consumed, no
\* offset recorded
RunHandler_new == [text_offset |-> 0, line_end_offsets |-> <<>>]

\* RunHandler::commit_run_buffer of a run whose utf8_range ends at range_end:
\* text_offset never goes back
commit_run_buffer(h, range_end) ==
    [h EXCEPT !.text_offset = IF range_end > h.text_offset THEN range_end
                              ELSE h.text_offset]

\* commit_line recording text_offset whatever the offsets recorded before
commit_line_always(h) ==
    [h EXCEPT !.line_end_offsets = Append(h.line_end_offsets, h.text_offset)]

\* RunHandler::commit_line: records text_offset if it is the first offset
\* or greater than the last one recorded
commit_line(h) ==
    IF \/ h.line_end_offsets = <<>>
       \/ h.text_offset > h.line_end_offsets[Len(h.line_end_offsets)]
    THEN [h EXCEPT !.line_end_offsets = Append(h.line_end_offsets, h.text_offset)]
    ELSE h

\* the line_break_offsets shape returns for the offsets the handler recorded
\* (lines 353-359): none for one visual row, else all but the last
line_break_offsets_of(line_end_offsets) ==
    IF Len(line_end_offsets) > 1
    THEN SubSeq(line_end_offsets, 1, Len(line_end_offsets) - 1)
    ELSE <<>>

\* the handler after the engine has laid text out in one visual row: one run
\* over the whole text if there is text, then the end of the row
OneRow(text) ==
    commit_line(IF text = <<>> THEN RunHandler_new
                ELSE commit_run_buffer(RunHandler_new, Len(text)))

\* what reshape_all stores of a ShapeResult in a line
shape(line, f) ==
    [line EXCEPT !.blob = make_blob(line.text, f),
                 !.cursor_pos = glyph_bounds(line.text, f),
                 !.line_end_offsets =
                     line_break_offsets_of(OneRow(line.text).line_end_offsets),
                 !.word_boundaries = word_breaks(line.text),
                 !.height = f,
                 !.shaped = TRUE]

----------------------------------------------------------------------------
(* Editor::reshape_all. *)

RECURSIVE HeightsBefore(_, _)
\* the heights of the first n lines together
HeightsBefore(ls, n) ==
    IF n = 0 THEN 0 ELSE HeightsBefore(ls, n - 1) + ls[n].height

\* Stack leaving every origin where it was
Stack_keepsOrigins(ls) == ls

\* the fold of the pass: every line's origin is where the lines before it end
Stack(ls) ==
    [i \in 1..Len(ls) |->
        [ls[i] EXCEPT !.origin = [x |-> 0, y |-> HeightsBefore(ls, i - 1)]]]

\* reshape_all without the test of needs_reshape at its start
reshape_all_always(ls, dirty, f) ==
    LET present == IF ls = <<>> THEN <<TextLine_new(<<>>)>> ELSE ls
    IN  Stack([i \in 1..Len(present) |->
                 IF present[i].shaped THEN present[i] ELSE shape(present[i], f)])

\* the lines after the pass: nothing when needs_reshape is false; else an
\* empty document gets one empty line, every line not shaped is shaped and
\* all the lines are stacked
reshape_all(ls, dirty, f) ==
    IF ~dirty THEN ls
    ELSE LET present == IF ls = <<>> THEN <<TextLine_new(<<>>)>> ELSE ls
         IN  Stack([i \in 1..Len(present) |->
                      IF present[i].shaped THEN present[i] ELSE shape(present[i], f)])

\* Editor.height after the pass
reshape_height(ls, dirty, f, h) ==
    IF ~dirty THEN h
    ELSE LET after == reshape_all(ls, dirty, f)
         IN  HeightsBefore(after, Len(after))

----------------------------------------------------------------------------
(* Editor::get_position and Editor::get_location. *)

\* Rect::contains(Point): left and top are inside, right and bottom are not
contains(r, x, y) == r.left <= x /\ x < r.right /\ r.top <= y /\ y < r.bottom

Min(a, b) == IF a <= b THEN a ELSE b
Max(a, b) == IF a >= b THEN a ELSE b

\* Rect::is_empty
is_empty(r) == r.left >= r.right \/ r.top >= r.bottom

\* Rect::join: the union's bounds; an empty rectangle does not count
join(r, other) ==
    IF is_empty(other) THEN r
    ELSE IF is_empty(r) THEN other
    ELSE Rect_new(Min(r.left, other.left), Min(r.top, other.top),
                  Max(r.right, other.right), Max(r.bottom, other.bottom))

\* the band of line j (156-171): from its origin to the next line's, or
\* without end below the last line, joined with the bounds of its blob
line_rect(ls, w, j) ==
    LET band == Rect_new(0, ls[j].origin.y, w,
                         IF j < Len(ls) THEN ls[j + 1].origin.y ELSE F32_MAX)
    IN  IF ls[j].blob = None THEN band ELSE join(band, ls[j].blob[1].bounds)

\* the cursor rectangles of line j that hold the point, by byte index
Hits(ls, j, x, y) ==
    {i \in 0..(Len(ls[j].cursor_pos) - 1) :
        /\ ls[j].cursor_pos[i + 1] # UNSET_RECT
        /\ contains(ls[j].cursor_pos[i + 1], x - ls[j].origin.x, y - ls[j].origin.y)}

\* approximate_byte taking a point at the origin as right of it
approximate_byte_strict(line, x) == IF x < line.origin.x THEN 0 ELSE Len(line.text)

\* the byte index of the approximate position (180-184)
approximate_byte(line, x) == IF x <= line.origin.x THEN 0 ELSE Len(line.text)

RECURSIVE scan_lines(_, _, _, _, _, _)
\* the loop of get_position from line j on, approx the approximate position
\* so far: the first hit of the first line whose band holds the point, else
\* the approximate position of the last line whose band holds it
scan_lines(ls, w, x, y, j, approx) ==
    IF j > Len(ls) THEN approx
    ELSE IF ~contains(line_rect(ls, w, j), x, y)
    THEN scan_lines(ls, w, x, y, j + 1, approx)
    ELSE IF Hits(ls, j, x, y) # {}
    THEN LET first == CHOOSE i \in Hits(ls, j, x, y) :
                          \A k \in Hits(ls, j, x, y) : i <= k
         IN  Some(TextPosition_new(first, j - 1))
    ELSE scan_lines(ls, w, x, y, j + 1,
                    Some(TextPosition_new(approximate_byte(ls[j], x), j - 1)))

\* what get_position returns on reshaped lines
get_position(ls, w, x, y) == scan_lines(ls, w, x, y, 1, None)

\* get_location reading the cache at the position as it is given
get_location_asGiven(ls, cursor) ==
    IF ls = <<>> \/ cursor.paragraph_index >= Len(ls) THEN None
    ELSE LET line == ls[cursor.paragraph_index + 1]
         IN  IF cursor.text_byte_index >= Len(line.cursor_pos) THEN None
             ELSE LET pos == line.cursor_pos[cursor.text_byte_index + 1]
                  IN  Some(Rect_new(pos.left - 1 + line.origin.x,
                                    pos.top + line.origin.y,
                                    pos.left + 1 + line.origin.x,
                                    pos.bottom + line.origin.y))

\* what get_location returns on reshaped lines: None, or the rectangle of
\* the normalized position, two units wide about its left edge, at the
\* line's origin (193-205)
get_location(ls, cursor) ==
    IF ls = <<>> THEN None
    ELSE LET c == mov(ls, "Nowhere", cursor)
             line == ls[c.paragraph_index + 1]
         IN  IF c.text_byte_index >= Len(line.cursor_pos) THEN None
             ELSE LET pos == line.cursor_pos[c.text_byte_index + 1]
                  IN  Some(Rect_new(pos.left - 1 + line.origin.x,
                                    pos.top + line.origin.y,
                                    pos.left + 1 + line.origin.x,
                                    pos.bottom + line.origin.y))

----------------------------------------------------------------------------
(* Editor::paint, as far as it reads the document. *)

RECURSIVE paint_selection(_, _, _)
\* the selection loop (306-313) from pos on: it indexes the lines and the
\* cursor rectangles with pos as it is, then steps with Right; it is done
\* when pos reaches end, aborts on an index out of range and never ends when
\* Right no longer moves pos
paint_selection(ls, pos, end) ==
    IF ~PosLess(pos, end) THEN "done"
    ELSE IF pos.paragraph_index >= Len(ls) THEN "panics"
    ELSE IF pos.text_byte_index >= Len(ls[pos.paragraph_index + 1].cursor_pos)
    THEN "panics"
    ELSE IF mov(ls, "Right", pos) = pos THEN "hangs"
    ELSE paint_selection(ls, mov(ls, "Right", pos), end)

\* TextPosition::range: the lesser position first
TextPosition_range(pos1, pos2) ==
    IF PosLess(pos2, pos1) THEN <<pos2, pos1>> ELSE <<pos1, pos2>>

\* how paint ends on reshaped lines
paint(ls, options) ==
    IF ls = <<>> \/ options.selection = None THEN "done"
    ELSE LET range == TextPosition_range(options.selection[1][1],
                                         options.selection[1][2])
         IN  paint_selection(ls, range[1], range[2])

----------------------------------------------------------------------------
(* The calls and their inputs. *)

NoPos == TextPosition_new(0, 0)

\* the record of a call: its inputs, the document it met, what it returned
Call(op, mv, pos, end, text, ret) ==
    [op |-> op, mv |-> mv, pos |-> pos, end |-> end, text |-> text,
     before |-> lines, before_needs_reshape |-> needs_reshape,
     before_height |-> height, ret |-> ret]

\* the record of a call of the layout interface: arg is the width, the font,
\* the point or the paint options given
LayoutCall(op, arg, ret) ==
    [op |-> op, arg |-> arg, before |-> lines,
     before_needs_reshape |-> needs_reshape, before_width |-> width,
     before_height |-> height, before_font |-> font, ret |-> ret]

Idle == [op |-> "idle"]

\* the positions a caller passes: every byte index up to past bytes after the
\* end of every paragraph, and a paragraph index one past the last paragraph
PositionsUpTo(ls, past) ==
    UNION {{TextPosition_new(b, p - 1) : b \in 0..(Len(ls[p].text) + past)} :
             p \in 1..Len(ls)}
    \cup {TextPosition_new(b, Len(ls)) : b \in 0..1}

\* positions for mov, insert and get_location, which normalize what they get
Positions(ls) == PositionsUpTo(ls, 1)

\* positions for remove, which takes them as they are: the ends of a range
\* come from mov or from a hit test, so no byte index past a paragraph's end
RangeEnds(ls) == PositionsUpTo(ls, 0)

InBounds(ls) == Len(ls) <= MaxLines /\ TotalBytes(ls) <= MaxBytes

\* the bytes of the document as a file
FileBytes(ls) == TotalBytes(ls) + (IF ls = <<>> THEN 0 ELSE Len(ls) - 1)

LayoutInBounds(ls) == FileBytes(ls) <= MaxLayoutBytes

\* the bounds of a run: those of the layout runs or those of the text runs
Fits(ls, layout) == IF layout THEN LayoutInBounds(ls) ELSE InBounds(ls)

RECURSIVE DocsOf(_, _, _)
\* the documents of at most n paragraphs and at most b bytes of UTF-8 text
\* made of the code points in chars
DocsOf(chars, n, b) ==
    IF n = 0 THEN {<<>>}
    ELSE {<<>>} \cup UNION {{<<TextLine_new(t)>> \o d : d \in DocsOf(chars, n - 1, b - Len(t))} :
                              t \in Utf8(chars, b)}

Docs(n, b) == DocsOf(Chars, n, b)

\* what a line source can hold
Sources == Docs(MaxLines, MaxBytes)

\* the bytes of text that are not newlines: what insert adds to the paragraphs
TextBytes(text) == Cardinality({i \in 1..Len(text) : text[i] # 10})

\* the texts given to insert
InsertTexts == Utf8(Chars \cup {CharNL}, MaxText)

\* the line sources and the key presses of the layout runs: 'a', U+00E9, Enter
LayoutChars == {CharA, CharE}
LayoutSources ==
    {d \in DocsOf(LayoutChars, MaxLayoutBytes + 1, MaxLayoutBytes) : LayoutInBounds(d)}
LayoutTexts == {<<>>, CharA, CharE, CharNL}

\* the widths a client sets; Editor::new starts with 0
Widths == {0, 2}

\* the points a client asks about: at the line origin, right of it and past
\* the widest band; in the first row, in the last and below the document of
\* height h
Points(h) == {0, 1, 3} \X {0, Max(h - 1, 0), h}

\* the options paint is given (app.rs on_paint): the caret, and the mark with
\* the caret if there is a selection
PaintOptions(carets, marks) ==
    {[cursor |-> Some(c), selection |-> sel] :
        <<c, sel>> \in UNION {{<<c, None>>} \cup {<<c, Some(<<m, c>>)>> : m \in marks} :
                                c \in carets}}

\* the ranges remove is given
Ranges(ls) == RangeEnds(ls) \X RangeEnds(ls)

\* the ranges TextPosition::range makes (app.rs on_key): start is not after end
OrderedRanges(ls) == {r \in Ranges(ls) : ~PosLess(r[2], r[1])}

----------------------------------------------------------------------------
(* The state machine. *)

\* Editor::new
Init ==
    /\ lines = <<>>
    /\ width = 0
    /\ height = 0
    /\ font = 1
    /\ needs_reshape = FALSE
    /\ panicked = FALSE
    /\ last = Idle
    /\ handler = RunHandler_new
    /\ line_break_offsets = None
    /\ text_pos = TextPosition_new(0, 0)
    /\ mark_pos = None
    /\ shift_down = FALSE

Ready == ~panicked /\ last.op = "idle"

\* LoadFrom replacing the lines without asking for a reshape pass
LoadFrom_keepsFlag(sources) ==
    /\ Ready
    /\ \E src \in sources :
         /\ lines' = src
         /\ last' = [Call("load", "Nowhere", NoPos, NoPos, <<>>, NoPos)
                         EXCEPT !.before = <<>>]
    /\ UNCHANGED <<width, height, font, needs_reshape, panicked>>

\* Editor::load of a source in sources: one paragraph per line of the source
LoadFrom(sources) ==
    /\ Ready
    /\ \E src \in sources :
         /\ lines' = src
         /\ last' = [Call("load", "Nowhere", NoPos, NoPos, <<>>, NoPos)
                         EXCEPT !.before = <<>>]
    /\ needs_reshape' = TRUE
    /\ UNCHANGED <<width, height, font, panicked>>

Load == LoadFrom(Sources)

\* Editor::mov: reads the document, returns a position or aborts (todo!())
Mov ==
    /\ Ready
    /\ \E mv \in Movement :
       \E pos \in IF mv \in Unimplemented THEN {NoPos} ELSE Positions(lines) :
         IF mov_panics(lines, mv)
         THEN /\ panicked' = TRUE
              /\ last' = Call("mov", mv, pos, NoPos, <<>>, NoPos)
         ELSE /\ UNCHANGED panicked
              /\ last' = Call("mov", mv, pos, NoPos, <<>>, mov(lines, mv, pos))
    /\ UNCHANGED <<lines, width, height, font, needs_reshape>>

\* Editor::insert of a text in texts, the document kept within the bounds
InsertOf(texts, layout) ==
    /\ Ready
    /\ UNCHANGED <<width, height, font>>
    /\ \E pos \in Positions(lines) :
       \E text \in texts :
         IF insert_skips(text)
         THEN /\ last' = Call("insert", "Nowhere", pos, NoPos, text, pos)
              /\ UNCHANGED <<lines, needs_reshape, panicked>>
         ELSE IF insert_panics(lines, pos, text)
         THEN /\ panicked' = TRUE
              /\ needs_reshape' = TRUE
              /\ last' = Call("insert", "Nowhere", pos, NoPos, text, NoPos)
              /\ UNCHANGED lines
         ELSE /\ Fits(insert_lines(lines, pos, text), layout)
              /\ lines' = insert_lines(lines, pos, text)
              /\ needs_reshape' = TRUE
              /\ last' = Call("insert", "Nowhere", pos, NoPos, text,
                              insert_ret(lines, pos, text))
              /\ UNCHANGED panicked

Insert ==
    InsertOf({t \in InsertTexts : TotalBytes(lines) + TextBytes(t) <= MaxBytes},
             FALSE)

\* Editor::remove of a range in ranges, the document kept within the bounds
RemoveOf(ranges, layout) ==
    /\ Ready
    /\ UNCHANGED <<width, height, font>>
    /\ \E range \in ranges :
         LET start == range[1]
             end == range[2]
         IN
         IF remove_skips(lines, start, end)
         THEN /\ last' = Call("remove", "Nowhere", start, end, <<>>, start)
              /\ UNCHANGED <<lines, needs_reshape, panicked>>
         ELSE IF remove_panics(lines, start, end)
         THEN /\ panicked' = TRUE
              /\ needs_reshape' = TRUE
              /\ last' = Call("remove", "Nowhere", start, end, <<>>, NoPos)
              /\ UNCHANGED lines
         ELSE /\ Fits(remove_lines(lines, start, end), layout)
              /\ lines' = remove_lines(lines, start, end)
              /\ needs_reshape' = TRUE
              /\ last' = Call("remove", "Nowhere", start, end, <<>>, start)
              /\ UNCHANGED panicked

Remove == RemoveOf(Ranges(lines), FALSE)

\* SetWidth invalidating without comparing the width it is given
SetWidth_unconditional ==
    /\ Ready
    /\ \E w \in Widths :
         /\ last' = LayoutCall("set_width", w, None)
         /\ width' = w
    /\ needs_reshape' = TRUE
    /\ lines' = [i \in 1..Len(lines) |-> mark_dirty(lines[i])]
    /\ UNCHANGED <<height, font, panicked>>

\* Editor::set_width
SetWidth ==
    /\ Ready
    /\ \E w \in Widths :
         /\ last' = LayoutCall("set_width", w, None)
         /\ IF width # w
            THEN /\ width' = w
                 /\ needs_reshape' = TRUE
                 /\ lines' = [i \in 1..Len(lines) |-> mark_dirty(lines[i])]
            ELSE UNCHANGED <<lines, width, needs_reshape>>
    /\ UNCHANGED <<height, font, panicked>>

\* Editor::set_font
SetFont ==
    /\ Ready
    /\ \E f \in Fonts :
         /\ last' = LayoutCall("set_font", f, None)
         /\ IF font # f
            THEN /\ font' = f
                 /\ needs_reshape' = TRUE
                 /\ lines' = [i \in 1..Len(lines) |-> mark_dirty(lines[i])]
            ELSE UNCHANGED <<lines, font, needs_reshape>>
    /\ UNCHANGED <<width, height, panicked>>

\* SetFontMgr shaping the lines it has invalidated
SetFontMgr_eager ==
    /\ Ready
    /\ last' = LayoutCall("set_font_mgr", None, None)
    /\ needs_reshape' = FALSE
    /\ lines' = reshape_all([i \in 1..Len(lines) |-> mark_dirty(lines[i])], TRUE, font)
    /\ UNCHANGED <<width, height, font, panicked>>

\* Editor::set_font_mgr: whatever the manager given, every line is dirty
SetFontMgr ==
    /\ Ready
    /\ last' = LayoutCall("set_font_mgr", None, None)
    /\ needs_reshape' = TRUE
    /\ lines' = [i \in 1..Len(lines) |-> mark_dirty(lines[i])]
    /\ UNCHANGED <<width, height, font, panicked>>

\* the reshape pass every geometry query starts with
Reshape ==
    /\ lines' = reshape_all(lines, needs_reshape, font)
    /\ height' = reshape_height(lines, needs_reshape, font, height)
    /\ needs_reshape' = FALSE

\* Editor::get_position: runs the reshape pass, then hit-tests the point
GetPosition ==
    /\ Ready
    /\ Reshape
    /\ \E xy \in Points(reshape_height(lines, needs_reshape, font, height)) :
         last' = LayoutCall("get_position", xy,
                     get_position(reshape_all(lines, needs_reshape, font),
                                  width, xy[1], xy[2]))
    /\ UNCHANGED <<width, font, panicked>>

\* Editor::get_location: runs the reshape pass, then reads the cache
GetLocation ==
    /\ Ready
    /\ Reshape
    /\ \E pos \in Positions(lines) :
         last' = Call("get_location", "Nowhere", pos, NoPos, <<>>,
                      get_location(reshape_all(lines, needs_reshape, font), pos))
    /\ UNCHANGED <<width, font, panicked>>

\* Editor::paint: runs the reshape pass, then draws the selection, the caret
\* and the blobs; the mark of a selection may be stale (app.rs keeps mark_pos
\* across edits), the caret is a position an editor call returned
Paint ==
    /\ Ready
    /\ Reshape
    /\ \E options \in PaintOptions(RangeEnds(lines), Positions(lines)) :
         LET ends == paint(reshape_all(lines, needs_reshape, font), options)
         IN  /\ last' = LayoutCall("paint", options, ends)
             /\ panicked' = (ends = "panics")
    /\ UNCHANGED <<width, font>>

\* the caller takes the returned value and is free to call again; a call
\* that aborted or never ends returns nothing
Return ==
    /\ ~panicked
    /\ last.op # "idle"
    /\ ~(last.op = "paint" /\ last.ret = "hangs")
    /\ last' = Idle
    /\ UNCHANGED <<lines, width, height, font, needs_reshape, panicked>>

\* a step of the editor alone: no shaping run in progress, no EditorLayer
EditorOnly == UNCHANGED <<shapeVars, layerVars>>

\* the text interface of the editor
Next ==
    \/ Load /\ EditorOnly
    \/ Mov /\ EditorOnly
    \/ Insert /\ EditorOnly
    \/ Remove /\ EditorOnly
    \/ Return /\ EditorOnly

Spec == Init /\ [][Next]_vars

\* the layout interface of the editor, on the documents a few key presses make
LayoutLoad == LoadFrom(LayoutSources)
LayoutInsert ==
    InsertOf({t \in LayoutTexts : FileBytes(lines) + Len(t) <= MaxLayoutBytes},
             TRUE)
LayoutRemove == RemoveOf(OrderedRanges(lines), TRUE)

NextLayout ==
    \/ LayoutLoad /\ EditorOnly
    \/ LayoutInsert /\ EditorOnly
    \/ LayoutRemove /\ EditorOnly
    \/ SetWidth /\ EditorOnly
    \/ SetFont /\ EditorOnly
    \/ SetFontMgr /\ EditorOnly
    \/ GetPosition /\ EditorOnly
    \/ GetLocation /\ EditorOnly
    \/ Paint /\ EditorOnly
    \/ Return /\ EditorOnly

SpecLayout == Init /\ [][NextLayout]_vars

----------------------------------------------------------------------------
(* One call of shape(), as the shaping engine drives its RunHandler. *)

\* the record of an event of the handler: the handler it met
HandlerEvent(op, arg) == [op |-> op, arg |-> arg, before |-> handler]

\* the rest of the model while a line is shaped
ShapeOnly ==
    UNCHANGED <<lines, width, height, font, needs_reshape, panicked, layerVars>>

\* the engine commits a run whose utf8_range ends at any offset of the text,
\* the runs in any order
CommitRunBuffer ==
    /\ line_break_offsets = None
    /\ \E range_end \in 0..MaxOffset :
         /\ handler' = commit_run_buffer(handler, range_end)
         /\ last' = HandlerEvent("commit_run_buffer", range_end)
    /\ UNCHANGED line_break_offsets
    /\ ShapeOnly

\* the engine ends a visual row; the rows of a text are no more than its
\* offsets
CommitLine ==
    /\ line_break_offsets = None
    /\ Len(handler.line_end_offsets) <= MaxOffset
    /\ handler' = commit_line(handler)
    /\ last' = HandlerEvent("commit_line", None)
    /\ UNCHANGED line_break_offsets
    /\ ShapeOnly

\* the engine is done and shape returns (lines 353-359)
ShapeReturns ==
    /\ line_break_offsets = None
    /\ line_break_offsets' = Some(line_break_offsets_of(handler.line_end_offsets))
    /\ last' = HandlerEvent("shape", None)
    /\ UNCHANGED handler
    /\ ShapeOnly

\* the next call of shape makes a new handler
ShapeAgain ==
    /\ line_break_offsets # None
    /\ handler' = RunHandler_new
    /\ line_break_offsets' = None
    /\ last' = Idle
    /\ ShapeOnly

NextShape == CommitRunBuffer \/ CommitLine \/ ShapeReturns \/ ShapeAgain

SpecShape == Init /\ [][NextShape]_vars

----------------------------------------------------------------------------
(* The EditorLayer: the caret, the mark and the events that move them. *)

\* the record of an event: what it was and the caret and the mark it met
LayerEvent(op, key, shift) ==
    [op |-> op, key |-> key, shift |-> shift, before |-> lines,
     before_text_pos |-> text_pos, before_mark_pos |-> mark_pos,
     before_shift_down |-> shift_down]

\* the characters typed without a modifier: 'a', U+00E9, Enter
TypedChars == {CharA, CharE, CharNL}

\* the texts the clipboard holds
ClipboardTexts == LayoutTexts

\* the movement of an arrow key, Home or End (on_key)
KeyMovement(key) ==
    CASE key = "ArrowLeft" -> "Left"
      [] key = "ArrowRight" -> "Right"
      [] key = "ArrowUp" -> "Up"
      [] key = "ArrowDown" -> "Down"
      [] key = "Home" -> "Home"
      [] key = "End" -> "End"

\* a call of the editor aborts inside a handler
LayerAborts ==
    /\ panicked' = TRUE
    /\ UNCHANGED <<lines, height, needs_reshape, layerVars>>

\* EditorLayer::mov(pos, shift) on an editor whose lines are ls, whose
\* needs_reshape is dirty and whose height is h: nothing moves if pos is the
\* caret (an unshifted call then drops the mark); else the mark is set or
\* dropped if shift differs from shift_down, the caret moves, and the scroll
\* position is taken from get_location(..).unwrap(), which reshapes
EditorLayer_mov(ls, dirty, h, pos, shift) ==
    IF pos = text_pos
    THEN /\ mark_pos' = IF shift THEN mark_pos ELSE None
         /\ lines' = ls
         /\ needs_reshape' = dirty
         /\ height' = h
         /\ UNCHANGED <<text_pos, shift_down, panicked>>
    ELSE /\ mark_pos' = IF shift # shift_down
                        THEN IF shift THEN Some(text_pos) ELSE None
                        ELSE mark_pos
         /\ shift_down' = shift
         /\ text_pos' = pos
         /\ lines' = reshape_all(ls, dirty, font)
         /\ height' = reshape_height(ls, dirty, font, h)
         /\ needs_reshape' = FALSE
         /\ panicked' = (get_location(reshape_all(ls, dirty, font), pos) = None)

\* EditorLayer::move_cursor
move_cursor(mv, shift) ==
    IF mov_panics(lines, mv) THEN LayerAborts
    ELSE EditorLayer_mov(lines, needs_reshape, height, mov(lines, mv, text_pos), shift)

\* on_char without a modifier: inserts the character at the caret, then
\* moves the caret right
OnChar ==
    /\ Ready
    /\ \E c \in TypedChars :
         /\ last' = LayerEvent("on_char", c, FALSE)
         /\ IF insert_panics(lines, text_pos, c) THEN LayerAborts
            ELSE LET after == insert_lines(lines, text_pos, c)
                 IN  /\ LayoutInBounds(after)
                     /\ EditorLayer_mov(after, TRUE, height,
                                        mov(after, "Right", text_pos), FALSE)
    /\ UNCHANGED <<width, font, shapeVars>>

\* on_char of Ctrl+V with a text on the clipboard: the caret is what insert
\* returns
OnPaste ==
    /\ Ready
    /\ \E text \in ClipboardTexts :
         /\ last' = LayerEvent("on_char", text, FALSE)
         /\ IF insert_skips(text)
            THEN UNCHANGED <<lines, height, needs_reshape, panicked, layerVars>>
            ELSE IF insert_panics(lines, text_pos, text) THEN LayerAborts
            ELSE /\ LayoutInBounds(insert_lines(lines, text_pos, text))
                 /\ lines' = insert_lines(lines, text_pos, text)
                 /\ needs_reshape' = TRUE
                 /\ text_pos' = insert_ret(lines, text_pos, text)
                 /\ UNCHANGED <<height, panicked, mark_pos, shift_down>>
    /\ UNCHANGED <<width, font, shapeVars>>

\* on_key of an arrow key, Home or End, with or without shift
OnArrowKey ==
    /\ Ready
    /\ \E key \in {"ArrowLeft", "ArrowRight", "ArrowUp", "ArrowDown", "Home", "End"} :
       \E shift \in BOOLEAN :
         /\ last' = LayerEvent("on_key", key, shift)
         /\ move_cursor(KeyMovement(key), shift)
    /\ UNCHANGED <<width, font, shapeVars>>

\* on_key of Delete or Backspace: removes from the mark, or from the
\* position next to the caret, to the caret, then moves the caret to what
\* remove returns
OnDeleteKey ==
    /\ Ready
    /\ \E key \in {"Delete", "Backspace"} :
       \E shift \in BOOLEAN :
         LET pos == IF mark_pos = None
                    THEN mov(lines, IF key = "Delete" THEN "Right" ELSE "Left", text_pos)
                    ELSE mark_pos[1]
             range == TextPosition_range(pos, text_pos)
         IN  /\ last' = LayerEvent("on_key", key, shift)
             /\ IF remove_skips(lines, range[1], range[2])
                THEN EditorLayer_mov(lines, needs_reshape, height, range[1], shift)
                ELSE IF remove_panics(lines, range[1], range[2]) THEN LayerAborts
                ELSE LET after == remove_lines(lines, range[1], range[2])
                     IN  /\ LayoutInBounds(after)
                         /\ EditorLayer_mov(after, TRUE, height, range[1], shift)
    /\ UNCHANGED <<width, font, shapeVars>>

\* on_mouse of a press, with or without shift: the caret goes to the
\* position get_position finds, if any
OnMouse ==
    /\ Ready
    /\ \E xy \in Points(reshape_height(lines, needs_reshape, font, height)) :
       \E shift \in BOOLEAN :
         LET shaped == reshape_all(lines, needs_reshape, font)
             h == reshape_height(lines, needs_reshape, font, height)
             hit == get_position(shaped, width, xy[1], xy[2])
         IN  /\ last' = LayerEvent("on_mouse", xy, shift)
             /\ IF hit = None
                THEN /\ lines' = shaped
                     /\ height' = h
                     /\ needs_reshape' = FALSE
                     /\ UNCHANGED <<panicked, layerVars>>
                ELSE EditorLayer_mov(shaped, FALSE, h, hit[1], shift)
    /\ UNCHANGED <<width, font, shapeVars>>

\* on_resize: the window width less the margins is given to set_width
OnResize == SetWidth /\ EditorOnly

\* on_paint: paints with the caret, and with the mark if there is one
OnPaint ==
    /\ Ready
    /\ Reshape
    /\ LET options == [cursor |-> Some(text_pos),
                       selection |-> IF mark_pos = None THEN None
                                     ELSE Some(<<mark_pos[1], text_pos>>)]
           ends == paint(reshape_all(lines, needs_reshape, font), options)
       IN  /\ last' = LayoutCall("paint", options, ends)
           /\ panicked' = (ends = "panics")
    /\ UNCHANGED <<width, font, shapeVars, layerVars>>

\* the handler returns to the event loop
LayerReturn == Return /\ EditorOnly

NextLayer ==
    \/ OnChar \/ OnPaste \/ OnArrowKey \/ OnDeleteKey
    \/ OnMouse \/ OnResize \/ OnPaint
    \/ LayerReturn

SpecLayer == Init /\ [][NextLayer]_vars

----------------------------------------------------------------------------
(* What the properties are stated with. *)

\* the bytes of the UTF-8 sequence a lead byte starts
Width(lead) ==
    IF lead < 128 THEN 1 ELSE IF lead < 224 THEN 2 ELSE IF lead < 240 THEN 3 ELSE 4

RECURSIVE CodePointStarts(_, _)
\* the offsets of the code points of text from offset from on, and its length
CodePointStarts(text, from) ==
    IF from >= Len(text) THEN {Len(text)}
    ELSE {from} \cup CodePointStarts(text, from + Width(text[from + 1]))

\* the code-point boundaries of text, its byte length among them
Boundaries(text) == CodePointStarts(text, 0)

\* the TextPosition invariant: a paragraph of the document and a boundary of
\* its text, or (0,0) when the document has no lines
ValidPosition(ls, q) ==
    IF ls = <<>> THEN q = NoPos
    ELSE /\ q.paragraph_index < Len(ls)
         /\ q.text_byte_index \in Boundaries(ls[q.paragraph_index + 1].text)

Least(S) == CHOOSE x \in S : \A y \in S : x <= y
Greatest(S) == CHOOSE x \in S : \A y \in S : x >= y

AtDocumentStart(q) == q = NoPos

AtDocumentEnd(ls, q) ==
    \/ ls = <<>>
    \/ /\ q.paragraph_index = Len(ls) - 1
       /\ q.text_byte_index = Len(ls[Len(ls)].text)

RECURSIVE Join(_)
\* the parts written with '\n' between them
Join(parts) ==
    IF Len(parts) = 1 THEN parts[1]
    ELSE parts[1] \o CharNL \o Join(Tail(parts))

\* the document text from start to end, paragraph breaks written as '\n'
Between(ls, start, end) ==
    LET s == start.paragraph_index
        e == end.paragraph_index
    IN  IF s = e
        THEN Slice(ls[s + 1].text, start.text_byte_index, end.text_byte_index)
        ELSE Join(<<Slice(ls[s + 1].text, start.text_byte_index, Len(ls[s + 1].text))>>
                  \o [i \in 1..(e - s - 1) |-> ls[s + 1 + i].text]
                  \o <<Slice(ls[e + 1].text, 0, end.text_byte_index)>>)

\* insert was called with a text that is not empty and returned
Inserted == last.op = "insert" /\ last.text # <<>> /\ ~panicked

\* remove was called on a range start < end of valid positions
RemovedValidRange ==
    /\ last.op = "remove"
    /\ ValidPosition(last.before, last.pos)
    /\ ValidPosition(last.before, last.end)
    /\ last.before # <<>>
    /\ PosLess(last.pos, last.end)

----------------------------------------------------------------------------
(* The properties. *)

\* C1: in a document with at least one line, insert(pos, text) with text not
\* empty splices the text at (p, b) = mov(Nowhere, pos). With the parts
\* t0..tk of text: for k = 0 line p becomes old[..b] ++ t0 ++ old[b..] and no
\* other line changes; for k >= 1 line p becomes old[..b] ++ t0, lines
\* p+1..p+k-1 are t1..t(k-1), line p+k is tk ++ old[b..], and the lines
\* formerly after p keep their text k places further.
C1_InsertSplices ==
    (Inserted /\ last.before # <<>>) =>
        LET old == last.before
            q == mov(old, "Nowhere", last.pos)
            p == q.paragraph_index + 1
            b == q.text_byte_index
            t == Split(last.text)
            k == Len(t) - 1
            o == old[p].text
        IN  /\ Len(lines) = Len(old) + k
            /\ \A i \in 1..(p - 1) : lines[i].text = old[i].text
            /\ \A i \in (p + 1)..Len(old) : lines[i + k].text = old[i].text
            /\ IF k = 0
               THEN lines[p].text = Slice(o, 0, b) \o t[1] \o Slice(o, b, Len(o))
               ELSE /\ lines[p].text = Slice(o, 0, b) \o t[1]
                    /\ \A j \in 1..(k - 1) : lines[p + j].text = t[j + 1]
                    /\ lines[p + k].text = t[k + 1] \o Slice(o, b, Len(o))

\* a text with a newline was inserted inside a paragraph that has text on both
\* sides of the position and a paragraph after it
C1_Witness ==
    /\ Inserted
    /\ last.before # <<>>
    /\ Len(Split(last.text)) >= 2
    /\ last.pos.paragraph_index + 1 < Len(last.before)
    /\ last.pos.text_byte_index > 0
    /\ last.pos.text_byte_index < Len(last.before[last.pos.paragraph_index + 1].text)

\* C2: insert(pos, text) with text not empty returns the position right after
\* the inserted text: with (p, b) = mov(Nowhere, pos) and parts t0..tk, it
\* returns (p, b + len(t0)) for k = 0 and (p + k, len(tk)) for k >= 1.
C2_InsertReturnsEnd ==
    Inserted =>
        LET q == mov(last.before, "Nowhere", last.pos)
            t == Split(last.text)
            k == Len(t) - 1
        IN  last.ret = IF k = 0
                       THEN TextPosition_new(q.text_byte_index + Len(t[1]),
                                             q.paragraph_index)
                       ELSE TextPosition_new(Len(t[k + 1]), q.paragraph_index + k)

\* C3: remove(start..end) with start in an earlier paragraph than end leaves
\* the head paragraph equal to head_old[..start.byte] ++ tail_old[end.byte..]
\* and deletes the paragraphs strictly between head and tail.
C3_RemoveJoinsHeadAndTail ==
    (RemovedValidRange /\ ~panicked
        /\ last.pos.paragraph_index < last.end.paragraph_index) =>
        LET old == last.before
            s == last.pos.paragraph_index
            e == last.end.paragraph_index
            tail == old[e + 1].text
        IN  /\ lines[s + 1].text =
                   Slice(old[s + 1].text, 0, last.pos.text_byte_index)
                   \o Slice(tail, last.end.text_byte_index, Len(tail))
            /\ Len(lines) <= Len(old) - (e - s - 1)

\* C4: remove(start..end) with both ends in one paragraph and start.byte <
\* end.byte removes the bytes [start.byte, end.byte) of that paragraph, leaves
\* the text of every other paragraph and the line count as they were, and
\* marks the paragraph dirty (shaped = false, needs_reshape = true).
C4_RemoveWithinParagraph ==
    (RemovedValidRange /\ last.pos.paragraph_index = last.end.paragraph_index) =>
        LET old == last.before
            p == last.pos.paragraph_index + 1
            sb == last.pos.text_byte_index
            cut == last.end.text_byte_index - sb
            o == old[p].text
        IN  /\ ~panicked
            /\ Len(lines) = Len(old)
            /\ lines[p].text =
                   [i \in 1..(Len(o) - cut) |-> IF i <= sb THEN o[i] ELSE o[i + cut]]
            /\ \A i \in (1..Len(old)) \ {p} : lines[i].text = old[i].text
            /\ ~lines[p].shaped
            /\ needs_reshape

\* a range was removed from a shaped paragraph of a clean document that has
\* another paragraph
C4_Witness ==
    /\ RemovedValidRange
    /\ last.pos.paragraph_index = last.end.paragraph_index
    /\ Len(last.before) >= 2
    /\ last.before[last.pos.paragraph_index + 1].shaped
    /\ ~last.before_needs_reshape

\* C5: for valid positions start < end, with T the document text between
\* them (paragraph breaks as '\n'), remove(start..end) followed by
\* insert(start, T) restores the document: the same line count and the same
\* text in every paragraph.
C5_RemoveThenInsertRestores ==
    (RemovedValidRange /\ ~panicked) =>
        LET T == Between(last.before, last.pos, last.end)
        IN  /\ ~insert_panics(lines, last.pos, T)
            /\ Texts(insert_lines(lines, last.pos, T)) = Texts(last.before)

\* C6: for every document and every position p given, q = mov(Nowhere, p)
\* satisfies the TextPosition invariant and mov(Nowhere, q) = q.
C6_NowhereNormalizes ==
    (last.op = "mov" /\ last.mv = "Nowhere") =>
        /\ ~panicked
        /\ ValidPosition(lines, last.ret)
        /\ mov(lines, "Nowhere", last.ret) = last.ret

\* mov(Nowhere, p) was called with a byte index inside a multi-byte code point
C6_Witness ==
    /\ last.op = "mov"
    /\ last.mv = "Nowhere"
    /\ last.pos.paragraph_index < Len(lines)
    /\ last.pos.text_byte_index < Len(lines[last.pos.paragraph_index + 1].text)
    /\ last.pos.text_byte_index \notin Boundaries(lines[last.pos.paragraph_index + 1].text)

\* C7: mov(Right, p), p normalized first, returns the next code-point boundary
\* after p.byte in the same paragraph when there is one; else byte 0 of the
\* next paragraph when there is one; else the normalized p.
C7_RightSteps ==
    (last.op = "mov" /\ last.mv = "Right") =>
        LET q == mov(lines, "Nowhere", last.pos)
        IN  /\ ~panicked
            /\ IF lines = <<>> THEN last.ret = q
               ELSE LET later == {c \in Boundaries(lines[q.paragraph_index + 1].text) :
                                    c > q.text_byte_index}
                    IN  last.ret =
                            IF later # {}
                            THEN TextPosition_new(Least(later), q.paragraph_index)
                            ELSE IF q.paragraph_index + 1 < Len(lines)
                            THEN TextPosition_new(0, q.paragraph_index + 1)
                            ELSE q

\* mov(Right, p) stepped over a code point of three bytes or more
C7_Witness ==
    /\ last.op = "mov"
    /\ last.mv = "Right"
    /\ last.ret.paragraph_index = last.pos.paragraph_index
    /\ last.ret.text_byte_index >= last.pos.text_byte_index + 3

\* C8: mov(Left, p), p normalized first, returns the end of the previous
\* paragraph when p is at byte 0 of a paragraph that is not the first, the
\* previous code-point boundary of the paragraph when p.byte > 0, and (0,0)
\* at the start of the document.
C8_LeftSteps ==
    (last.op = "mov" /\ last.mv = "Left") =>
        LET q == mov(lines, "Nowhere", last.pos)
        IN  /\ ~panicked
            /\ IF lines = <<>> THEN last.ret = NoPos
               ELSE LET earlier == {c \in Boundaries(lines[q.paragraph_index + 1].text) :
                                      c < q.text_byte_index}
                    IN  last.ret =
                            IF q.text_byte_index > 0
                            THEN TextPosition_new(Greatest(earlier), q.paragraph_index)
                            ELSE IF q.paragraph_index > 0
                            THEN TextPosition_new(Len(lines[q.paragraph_index].text),
                                                  q.paragraph_index - 1)
                            ELSE NoPos

\* mov(Left, p) stepped back over a multi-byte code point
C8_Witness ==
    /\ last.op = "mov"
    /\ last.mv = "Left"
    /\ ValidPosition(lines, last.pos)
    /\ last.ret.paragraph_index = last.pos.paragraph_index
    /\ last.ret.text_byte_index + 2 <= last.pos.text_byte_index

\* C9 as stated: for every valid position p that is not at the start of the
\* document, mov(Left, mov(Right, p)) = p; and at the end of the document
\* mov(Right, p) = p.
C9_RightThenLeft_NotAtStart ==
    (last.op = "mov" /\ last.mv = "Right" /\ ValidPosition(lines, last.pos)) =>
        /\ ~AtDocumentStart(last.pos) => mov(lines, "Left", last.ret) = last.pos
        /\ AtDocumentEnd(lines, last.pos) => last.ret = last.pos

\* C9 amended: for every valid position p that is not at the end of the
\* document, mov(Left, mov(Right, p)) = p; and at the end of the document
\* mov(Right, p) = p.
C9_RightThenLeft_NotAtEnd ==
    (last.op = "mov" /\ last.mv = "Right" /\ ValidPosition(lines, last.pos)) =>
        /\ ~panicked
        /\ ~AtDocumentEnd(lines, last.pos) => mov(lines, "Left", last.ret) = last.pos
        /\ AtDocumentEnd(lines, last.pos) => last.ret = last.pos

\* mov(Right, p) went from the end of a paragraph with text to the next one
C9_Witness ==
    /\ last.op = "mov"
    /\ last.mv = "Right"
    /\ ValidPosition(lines, last.pos)
    /\ last.pos.text_byte_index > 0
    /\ last.ret.paragraph_index = last.pos.paragraph_index + 1

\* C10 as stated: for every document, empty or not, insert(pos, text) with
\* text not empty and pos.paragraph_index equal to the line count makes every
\* part of text a new trailing paragraph: the paragraphs there keep their text
\* and the line count grows by the number of parts.
C10_AppendsAtLineCount ==
    (Inserted /\ last.pos.paragraph_index = Len(last.before)) =>
        LET old == last.before
            t == Split(last.text)
        IN  /\ Len(lines) = Len(old) + Len(t)
            /\ \A i \in 1..Len(old) : lines[i].text = old[i].text
            /\ \A j \in 1..Len(t) : lines[Len(old) + j].text = t[j]

\* C10 amended: insert(pos, text) with text not empty and pos.paragraph_index
\* equal to the line count makes every part of text a new paragraph only in
\* a document with no lines. In a document with lines the position is
\* normalized to the end of the last paragraph and the text is spliced there:
\* the first part is appended to the last paragraph, the other parts become
\* new trailing paragraphs, and the paragraphs before the last keep their text.
C10_AppendsOnlyWhenEmpty ==
    (last.op = "insert" /\ last.text # <<>>
        /\ last.pos.paragraph_index = Len(last.before)) =>
        LET old == last.before
            n == Len(old)
            t == Split(last.text)
        IN  /\ ~panicked
            /\ IF old = <<>> THEN Texts(lines) = t
               ELSE /\ Len(lines) = n + Len(t) - 1
                    /\ \A i \in 1..(n - 1) : lines[i].text = old[i].text
                    /\ lines[n].text = old[n].text \o t[1]
                    /\ \A j \in 2..Len(t) : lines[n + j - 1].text = t[j]

\* a text of several parts was inserted at paragraph index = line count into
\* a document with lines
C10_Witness ==
    /\ Inserted
    /\ last.before # <<>>
    /\ last.pos.paragraph_index = Len(last.before)
    /\ Len(Split(last.text)) >= 2

\* a text with a code point of more than one byte
HasMultiByte(text) == \E i \in 1..Len(text) : text[i] >= 128

\* C11: the byte index of the position insert returns never splits a code
\* point: it is a code-point boundary of the paragraph the position resolves
\* to, and normalizing the position leaves it where it is.  Holds for every
\* document, every position given (one inside a code point too) and every
\* text, texts with code points of several bytes among them.
C11_InsertReturnsBoundary ==
    Inserted =>
        LET q == mov(lines, "Nowhere", last.ret)
        IN  /\ q.text_byte_index = last.ret.text_byte_index
            /\ q.text_byte_index \in Boundaries(lines[q.paragraph_index + 1].text)

\* a text with a code point of several bytes went in at a position given
\* inside a code point of several bytes
C11_Witness ==
    /\ Inserted
    /\ HasMultiByte(last.text)
    /\ last.pos.paragraph_index < Len(last.before)
    /\ last.pos.text_byte_index <= Len(last.before[last.pos.paragraph_index + 1].text)
    /\ last.pos.text_byte_index
           \notin Boundaries(last.before[last.pos.paragraph_index + 1].text)
    /\ last.ret.text_byte_index > 0

\* a line of ls is shaped
SomeShaped(ls) == \E i \in 1..Len(ls) : ls[i].shaped

\* C12: remove returns the start of the range whenever it returns; and when
\* start = end or start's paragraph index is not below the line count it
\* does return and is a no-op: the lines (their text, their count, their
\* shaped flags) and needs_reshape are what they were.
C12_RemoveReturnsStart ==
    last.op = "remove" =>
        /\ ~panicked => last.ret = last.pos
        /\ (\/ last.pos = last.end
            \/ last.pos.paragraph_index >= Len(last.before)) =>
               /\ ~panicked
               /\ lines = last.before
               /\ needs_reshape = last.before_needs_reshape

\* remove was given a range that is not empty and starts past the last line
\* of a clean document with shaped lines
C12_Witness ==
    /\ last.op = "remove"
    /\ ~panicked
    /\ last.pos # last.end
    /\ last.pos.paragraph_index >= Len(last.before)
    /\ SomeShaped(last.before)
    /\ ~last.before_needs_reshape

\* C13: insert(pos, "") returns pos as it was given, not normalized, and
\* changes nothing: the lines (their text, their count, their shaped flags)
\* and needs_reshape are what they were.
C13_EmptyInsertIsNoOp ==
    (last.op = "insert" /\ last.text = <<>>) =>
        /\ ~panicked
        /\ last.ret = last.pos
        /\ lines = last.before
        /\ needs_reshape = last.before_needs_reshape

\* the empty text was inserted at a position that is not normalized, into a
\* clean document with shaped lines
C13_Witness ==
    /\ last.op = "insert"
    /\ last.text = <<>>
    /\ last.pos # mov(last.before, "Nowhere", last.pos)
    /\ SomeShaped(last.before)
    /\ ~last.before_needs_reshape

\* the calls that read the layout cache
GeometryOps == {"get_position", "get_location", "paint"}

\* the calls that write the document or its layout parameters
Mutators == {"load", "insert", "remove", "set_width", "set_font", "set_font_mgr"}

AllShaped(ls) == \A i \in 1..Len(ls) : ls[i].shaped
NoneShaped(ls) == \A i \in 1..Len(ls) : ~ls[i].shaped

\* C14: set_width(w) with w not the current width leaves every line not
\* shaped and needs_reshape true, the texts and the line count as they were;
\* set_width with the current width changes nothing; and a get_location
\* call, the next one after set_width among them, has every line shaped and
\* needs_reshape false when it returns.
C14_SetWidthInvalidates ==
    /\ (last.op = "set_width" /\ last.arg # last.before_width) =>
          /\ width = last.arg
          /\ NoneShaped(lines)
          /\ needs_reshape
          /\ Texts(lines) = Texts(last.before)
    /\ (last.op = "set_width" /\ last.arg = last.before_width) =>
          /\ width = last.before_width
          /\ lines = last.before
          /\ needs_reshape = last.before_needs_reshape
    /\ last.op = "get_location" =>
          /\ ~panicked
          /\ AllShaped(lines)
          /\ ~needs_reshape

\* a new width was set on a clean document of two shaped paragraphs or more
C14_Witness ==
    /\ last.op = "set_width"
    /\ last.arg # last.before_width
    /\ Len(last.before) >= 2
    /\ AllShaped(last.before)
    /\ ~last.before_needs_reshape

\* every line is where the lines before it end, and Editor.height is where
\* the last line ends
Stacked(ls, h) ==
    /\ \A i \in 1..Len(ls) :
         ls[i].origin = [x |-> 0, y |-> HeightsBefore(ls, i - 1)]
    /\ h = HeightsBefore(ls, Len(ls))

\* C15: after a geometry query whose reshape pass started with needs_reshape
\* true, needs_reshape is false, every line is shaped, the origin.y of line i
\* is the sum of the heights of the lines before it and the document height
\* is the sum of all the heights; and the lines are stacked so in every
\* reachable state in which needs_reshape is false.
C15_ReshapeStacks ==
    /\ (last.op \in GeometryOps /\ last.before_needs_reshape) =>
          /\ ~needs_reshape
          /\ AllShaped(lines)
          /\ Stacked(lines, height)
    /\ ~needs_reshape => Stacked(lines, height)

\* a geometry query met a dirty document and moved the second line of two or
\* more to where the first, of a height that is not 0, ends
C15_Witness ==
    /\ last.op \in GeometryOps
    /\ last.before_needs_reshape
    /\ Len(lines) >= 2
    /\ Len(last.before) = Len(lines)
    /\ lines[2].origin.y > 0
    /\ last.before[2].origin.y # lines[2].origin.y

\* C16: in every reachable state, whatever the calls made, a line whose
\* shaped flag is true has one cursor rectangle per byte of its text and one
\* more: cursor_pos.len() = text.len() + 1.
C16_CursorPosLength ==
    \A i \in 1..Len(lines) :
        lines[i].shaped => Len(lines[i].cursor_pos) = Len(lines[i].text) + 1

\* a geometry query has shaped a line of a code point of several bytes, one
\* of its rectangles unset, that was dirty with a stale cache of another
\* length
C16_Witness ==
    /\ last.op \in GeometryOps
    /\ \E i \in 1..Len(lines) :
         /\ lines[i].shaped
         /\ \E k \in 1..Len(lines[i].cursor_pos) : lines[i].cursor_pos[k] = UNSET_RECT
         /\ i <= Len(last.before)
         /\ ~last.before[i].shaped
         /\ last.before[i].cursor_pos # <<>>
         /\ Len(last.before[i].cursor_pos) # Len(last.before[i].text) + 1

\* C17: a document without lines, freshly created or cleared by load of an
\* empty source, has one line at least after a geometry query.
C17_NeverEmptyAfterQuery ==
    (last.op \in GeometryOps /\ last.before = <<>>) => Len(lines) >= 1

\* a line of the state after a step that was not in the state before it
\* shaped as it is: the step has shaped it
WasShaped ==
    \E i \in 1..Len(lines') :
        /\ lines'[i].shaped
        /\ \A j \in 1..Len(lines) : lines[j] # lines'[i]

\* C18: layout is lazy.  The step that shapes a line is the call of
\* get_position, get_location or paint, never that of insert, remove, load,
\* set_width, set_font or set_font_mgr; and every line is shaped when a
\* geometry query has read the cache.
C18_LazyLayout ==
    /\ [][WasShaped => last'.op \in GeometryOps]_vars
    /\ [](last.op \in GeometryOps => AllShaped(lines))

\* a geometry query met a dirty document and shaped a line that load, insert
\* or remove had left dirty with an older cache
C18_Witness ==
    /\ last.op \in GeometryOps
    /\ last.before_needs_reshape
    /\ AllShaped(lines)
    /\ \E i \in 1..Len(last.before) :
         /\ ~last.before[i].shaped
         /\ last.before[i].cursor_pos # <<>>
    /\ \E i \in 1..Len(last.before) : last.before[i].shaped

\* C19: get_location never aborts; it returns None exactly when the document
\* has no lines or the line of the normalized position has no cursor
\* rectangle at its byte index; and it returns a rectangle for every position
\* when the document has a line after the reshape pass.
C19_GetLocationTotal ==
    last.op = "get_location" =>
        LET c == mov(lines, "Nowhere", last.pos)
        IN  /\ ~panicked
            /\ last.ret = None <=>
                  \/ lines = <<>>
                  \/ c.text_byte_index >= Len(lines[c.paragraph_index + 1].cursor_pos)
            /\ lines # <<>> => last.ret # None

\* get_location was given a position past the end of its paragraph in a
\* document it had to reshape, and returned a rectangle
C19_Witness ==
    /\ last.op = "get_location"
    /\ last.before_needs_reshape
    /\ last.before # <<>>
    /\ last.pos.paragraph_index < Len(lines)
    /\ last.pos.text_byte_index > Len(lines[last.pos.paragraph_index + 1].text)
    /\ last.ret # None

\* the point of a get_position call is below all text, in the band of the
\* last line, and in none of its cursor rectangles
BelowAllText ==
    /\ last.op = "get_position"
    /\ lines # <<>>
    /\ last.arg[2] >= height
    /\ contains(line_rect(lines, width, Len(lines)), last.arg[1], last.arg[2])
    /\ Hits(lines, Len(lines), last.arg[1], last.arg[2]) = {}

\* get_position returns None only if the band of no line holds the point
NoneOnlyOutside ==
    (last.op = "get_position" /\ last.ret = None) =>
        \A j \in 1..Len(lines) :
            ~contains(line_rect(lines, width, j), last.arg[1], last.arg[2])

\* C20 as claimed: for a point below all text, in the band of the last line
\* and in no cursor rectangle, get_position returns the end of the last
\* line; and it returns None only if the band of no line holds the point.
C20_BelowReturnsLineEnd ==
    /\ BelowAllText =>
          last.ret = Some(TextPosition_new(Len(lines[Len(lines)].text), Len(lines) - 1))
    /\ NoneOnlyOutside

\* C20: for a point below all text, in the band of the last line and in no
\* cursor rectangle, get_position returns a position of the last line: its
\* end if the point is right of the line origin (x > 0), its byte 0 if the
\* point is at the line origin or left of it; and it returns None only if
\* the band of no line holds the point.
C20_BelowReturnsLineEndOrStart ==
    /\ BelowAllText =>
          last.ret = Some(TextPosition_new(
              IF last.arg[1] > 0 THEN Len(lines[Len(lines)].text) ELSE 0,
              Len(lines) - 1))
    /\ NoneOnlyOutside

\* get_position was asked about a point below a document of two lines or
\* more, right of the origin of a last line that has text
C20_Witness ==
    /\ BelowAllText
    /\ Len(lines) >= 2
    /\ lines[Len(lines)].text # <<>>
    /\ last.arg[1] > 0

----------------------------------------------------------------------------
(* Paragraph indices past the last line. *)

\* a position whose paragraph index is not the index of a line of ls
PastLastLine(ls, pos) == pos.paragraph_index >= Len(ls)

\* the last call was given a position past the last line of the document it
\* met: mov with an implemented movement, insert, get_location, remove with
\* either end of its range, or paint with its caret or an end of its
\* selection (paint reads the lines after its reshape pass)
GivenPastLastLine ==
    \/ /\ last.op = "mov"
       /\ last.mv \notin Unimplemented
       /\ PastLastLine(last.before, last.pos)
    \/ /\ last.op \in {"insert", "get_location"}
       /\ PastLastLine(last.before, last.pos)
    \/ /\ last.op = "remove"
       /\ PastLastLine(last.before, last.pos) \/ PastLastLine(last.before, last.end)
    \/ /\ last.op = "paint"
       /\ \/ PastLastLine(lines, last.arg.cursor[1])
          \/ /\ last.arg.selection # None
             /\ PastLastLine(lines, last.arg.selection[1][1])

\* C21: no call that is given a position whose paragraph index is the line
\* count or more aborts: mov (Nowhere, Left, Right), insert, remove,
\* get_location and paint all treat the index as that of the last line.
C21_ParagraphIndexClamped == GivenPastLastLine => ~panicked

----------------------------------------------------------------------------
(* The document-level flag and the flags of the lines. *)

\* C22: in every reachable state, if some line has shaped = false then
\* needs_reshape is true; so a geometry query, whose reshape pass skips the
\* whole document when needs_reshape is false, returns with every line
\* shaped.
C22_UnshapedImpliesNeedsReshape ==
    /\ ~AllShaped(lines) => needs_reshape
    /\ last.op \in GeometryOps => AllShaped(lines)

\* an insert met a document whose lines were all shaped and whose flag was
\* false, and left one line not shaped beside a shaped one
C22_Witness ==
    /\ last.op = "insert"
    /\ ~panicked
    /\ ~last.before_needs_reshape
    /\ AllShaped(last.before)
    /\ SomeShaped(lines)
    /\ ~AllShaped(lines)

----------------------------------------------------------------------------
(* Removal of a valid range. *)

\* C23: remove(start..end) does not abort when start < end are valid
\* positions of the document (paragraph index below the line count, byte
\* index at a code-point boundary or at the end of the line), the end at the
\* end of its paragraph or at byte 0 of an empty paragraph included.
C23_RemoveOfValidRangeReturns == RemovedValidRange => ~panicked

----------------------------------------------------------------------------
(* The selection loop of paint. *)

\* C24: paint comes to an end for every selection pair (mark, caret): the
\* loop that steps with Right from the lesser endpoint reaches the greater
\* one, also when the mark is stale (its byte index past the end of the last
\* paragraph).
C24_PaintTerminates == last.op = "paint" => last.ret # "hangs"

----------------------------------------------------------------------------
(* The position insert returns. *)

\* C25: for every document, one with no lines included, and every text that
\* is not empty, the position insert returns is a position of the resulting
\* document: its paragraph index is below the line count and its byte index
\* is at most the byte length of that paragraph.
C25_InsertReturnsPositionOfDocument ==
    Inserted =>
        /\ last.ret.paragraph_index < Len(lines)
        /\ last.ret.text_byte_index <= Len(lines[last.ret.paragraph_index + 1].text)

----------------------------------------------------------------------------
(* The paragraphs a spanning removal leaves. *)

\* C26: remove(start..end) with s = start.paragraph_index below
\* e = end.paragraph_index merges the tail paragraph into the head: the line
\* count has decreased by e - s, and the paragraph that was at index e + 1,
\* if any, is at index s + 1, right after the head.
C26_SpanningRemoveMerges ==
    (RemovedValidRange /\ ~panicked
        /\ last.pos.paragraph_index < last.end.paragraph_index) =>
        LET old == last.before
            s == last.pos.paragraph_index
            e == last.end.paragraph_index
        IN  /\ Len(lines) = Len(old) - (e - s)
            /\ e + 1 < Len(old) => lines[s + 2].text = old[e + 2].text

----------------------------------------------------------------------------
(* What the reshape pass leaves alone. *)

\* the cache of a line that the reshape pass fills
Cache(line) ==
    <<line.cursor_pos, line.line_end_offsets, line.word_boundaries, line.height>>

\* C27: the reshape pass of a geometry query shapes only the lines that are
\* not shaped.  When needs_reshape was false it changes nothing at all: the
\* lines (their count, caches and origins) and the document height are what
\* they were.  When needs_reshape was true, every line that was shaped keeps
\* its text, cursor_pos, line_end_offsets, word_boundaries and height.
C27_ReshapeFrame ==
    last.op \in GeometryOps =>
        IF ~last.before_needs_reshape
        THEN lines = last.before /\ height = last.before_height
        ELSE \A i \in 1..Len(last.before) :
                 last.before[i].shaped =>
                     /\ lines[i].text = last.before[i].text
                     /\ lines[i].shaped
                     /\ Cache(lines[i]) = Cache(last.before[i])

\* a geometry query met needs_reshape true, a shaped line with its cache and
\* a line that was not shaped, and moved the shaped line to another origin
C27_Witness ==
    /\ last.op \in GeometryOps
    /\ last.before_needs_reshape
    /\ \E i, j \in 1..Len(last.before) :
         /\ last.before[i].shaped
         /\ last.before[i].cursor_pos # <<>>
         /\ ~last.before[j].shaped
         /\ lines[i].origin # last.before[i].origin

----------------------------------------------------------------------------
(* The movements that are not implemented. *)

\* the last call was mov with Up, Down, Home, End, WordLeft or WordRight
MovedUnimplemented == last.op = "mov" /\ last.mv \in Unimplemented

\* C29 as claimed: in every document state, mov with Up, Down, Home, End,
\* WordLeft or WordRight aborts; it never returns a position.
C29_UnimplementedAlwaysAborts == MovedUnimplemented => panicked

\* C29: in a document with at least one line, mov with Up, Down, Home, End,
\* WordLeft or WordRight aborts and returns no position; in a document with
\* no lines it returns (paragraph 0, byte 0), as every movement does there.
C29_UnimplementedAbortsUnlessEmpty ==
    MovedUnimplemented =>
        IF last.before = <<>>
        THEN ~panicked /\ last.ret = NoPos
        ELSE panicked

\* mov with a movement that is not implemented was called on a document
\* with lines, and aborted
C29_Witness ==
    /\ MovedUnimplemented
    /\ last.before # <<>>
    /\ panicked

----------------------------------------------------------------------------
(* The wrap points of a shaped line. *)

\* a sequence of numbers that grows strictly: no two entries equal
StrictlyIncreasing(offsets) ==
    \A i, j \in 1..Len(offsets) : i < j => offsets[i] < offsets[j]

\* C28: whatever commit-run and commit-line events the engine sends, in
\* whatever order of run end offsets, the offsets the handler has recorded
\* are strictly increasing, so free of duplicates; and the line_break_offsets
\* shape returns are empty when at most one offset was recorded, and else
\* the recorded offsets without the last one.
C28_WrapOffsetsIncrease ==
    /\ StrictlyIncreasing(handler.line_end_offsets)
    /\ line_break_offsets # None =>
          LET recorded == handler.line_end_offsets
              returned == line_break_offsets[1]
          IN  IF Len(recorded) <= 1
              THEN returned = <<>>
              ELSE /\ Len(returned) = Len(recorded) - 1
                   /\ \A i \in 1..Len(returned) : returned[i] = recorded[i]

\* the engine ended a row without having consumed text since the row
\* before, with three offsets recorded: the row was not recorded again
C28_Witness ==
    /\ last.op = "commit_line"
    /\ handler = last.before
    /\ Len(handler.line_end_offsets) >= 3
    /\ handler.text_offset = handler.line_end_offsets[Len(handler.line_end_offsets)]

----------------------------------------------------------------------------
(* The mark of the EditorLayer. *)

\* the last event was a key or a mouse press with shift held, its handler
\* returned, and the caret is not where it was
ShiftedCaretMove ==
    /\ last.op \in {"on_key", "on_mouse"}
    /\ last.shift
    /\ ~panicked
    /\ text_pos # last.before_text_pos

\* C30: after any sequence of key and mouse events, a caret move made with
\* shift held that changes the caret position leaves mark_pos set (Some): a
\* shifted move always yields a selection.
C30_ShiftedMoveKeepsMark == ShiftedCaretMove => mark_pos # None

====
